---------------------------- MODULE Spec2Model ----------------------------
(***************************************************************************)
(* A model of lmdb/tool.py: the cdbmake-style dump/restore codec           *)
(* (dump_cursor_to_fp, restore_cursor_from_fp), the windowed rate sampler  *)
(* of cmd_watch, the terminal-size cache refreshed by _on_sigwinch, and    *)
(* the loop of cmd_watch that renders the table or the csv rows.           *)
(*                                                                         *)
(* Byte strings are sequences of one-character strings.  The interpreter   *)
(* modelled is Python 2 (xrange, iteritems, str files), as the source      *)
(* requires.                                                               *)
(***************************************************************************)
EXTENDS Integers, Sequences, FiniteSets, TLC

VARIABLES
    \* ---- dump / restore ----
    cursor,     \* the (key, value) pairs the cursor of cmd_dump yields
    idx,        \* how many pairs dump_cursor_to_fp has consumed
    fp,         \* the bytes of the file (written by dump, read by restore)
    fault,      \* what happened to the file between dump and restore
    pc,         \* position of the dump/restore program
    pos,        \* read offset of fp in restore_cursor_from_fp
    rec_nr,     \* restore_cursor_from_fp: rec_nr
    buf,        \* bytes read so far by the running read_until
    klen,       \* restore_cursor_from_fp: klen
    dlen,       \* restore_cursor_from_fp: dlen
    key,        \* restore_cursor_from_fp: key
    puts,       \* the calls txn.put(key, data) made so far, in order
    err,        \* the diagnostic die() wrote, if any
    result,     \* the value restore_cursor_from_fp returned
    \* ---- main / watch ----
    tty,        \* whether stdout is a terminal (TIOCGWINSZ succeeds)
    winsz,      \* the window size the terminal reports
    sigpending, \* a SIGWINCH has been sent and its handler has not run yet
    _TERM_WIDTH,    \* the global: <<>> while undefined, else <<value>>
    _TERM_HEIGHT,   \* the global: <<>> while undefined, else <<value>>
    mpc,        \* position of main()
    exc,        \* the exception that ended the process, if any
    window,     \* opts.window
    interval,   \* opts.interval
    history,    \* the deque of one windowfunc
    samples,    \* every value func() has returned to that windowfunc
    rate,       \* the last value the windowfunc returned, as num / den
    \* ---- the loop of cmd_watch ----
    csv,        \* opts.csv
    wpc,        \* position of cmd_watch
    cnt,        \* cmd_watch: cnt
    term_width, \* cmd_watch: term_width
    widths,     \* cmd_watch: widths
    vals,       \* cmd_watch: vals of the current tick
    col,        \* index of the next cell of the row being written
    seen_h,     \* the _TERM_HEIGHT loaded by this tick's header test, if any,
                \* until the row of values is begun
    out,        \* what has been written to stdout, row by row
    snap,       \* history: the cached pair at each load of this tick's header
                \* test, the load of _TERM_WIDTH first, until a row is begun
    wchg        \* history: the tick in which the cached width last changed
                \* with no header begun since, if any

codec_vars == <<cursor, idx, fp, fault, pc, pos, rec_nr, buf, klen, dlen,
                key, puts, err, result>>

watch_vars == <<tty, winsz, sigpending, _TERM_WIDTH, _TERM_HEIGHT, mpc, exc,
                window, interval, history, samples, rate>>

render_vars == <<csv, wpc, cnt, term_width, widths, vals, col, seen_h, out,
                 snap, wchg>>

vars == <<codec_vars, watch_vars, render_vars>>

-----------------------------------------------------------------------------
(* Bounds and input sets *)

\* Most records a cursor yields.
MaxRecs == 2

\* Most calls of the windowfunc in one run.
MaxTicks == 5

\* Largest window size tried besides the default.
MaxWindow == 3

Min(a, b) == IF a < b THEN a ELSE b
Max(a, b) == IF a > b THEN a ELSE b

Rec(k, v) == [key |-> k, value |-> v]

\* Records dumped and restored over an undamaged file: empty key, empty
\* value, every byte the framing itself uses, and a key of ten bytes (a
\* two-digit length).
Records ==
    { Rec(<<>>, <<>>),
      Rec(<<"\n">>, <<"+", "1">>),
      Rec(<<"-", ">">>, <<",", ":">>),
      Rec(<<"a">>, <<"\n", "+">>),
      Rec(<<"a", "b">>, <<"-", ">", "\n">>),
      Rec(<<"0","1","2","3","4","5","6","7","8","9">>, <<"x">>) }

\* Records whose dump is also damaged in every single-byte way.
FaultRecords ==
    { Rec(<<>>, <<>>),
      Rec(<<"a">>, <<"b">>),
      Rec(<<"1">>, <<"-", ">">>),
      Rec(<<"a", "b">>, <<"-", ">", "\n">>) }

\* Bytes a damaged file may carry in place of, or in addition to, its own.
FaultBytes == {"+", "-", " ", "x", "1", "\n"}

RECURSIVE SeqsUpTo(_, _)
SeqsUpTo(S, n) ==
    IF n = 0 THEN {<<>>}
    ELSE LET shorter == SeqsUpTo(S, n - 1)
         IN  shorter \cup {Append(s, x) : s \in {t \in shorter : Len(t) = n - 1}, x \in S}

-----------------------------------------------------------------------------
(* Python 2 builtins used by the codec *)

DigitChars == <<"0", "1", "2", "3", "4", "5", "6", "7", "8", "9">>
DigitSet == {DigitChars[i] : i \in 1..10}
DigitValue(c) == (CHOOSE i \in 1..10 : DigitChars[i] = c) - 1

\* A '%d' that keeps only the last digit.
FormatD_units(n) == <<DigitChars[(n % 10) + 1]>>

\* '%d' % n for n >= 0.
RECURSIVE FormatD(_)
FormatD(n) ==
    IF n < 10 THEN <<DigitChars[n + 1]>>
    ELSE FormatD(n \div 10) \o <<DigitChars[(n % 10) + 1]>>

\* str.isspace() for one byte.
IsSpace(c) == c \in {" ", "\n", "\t", "\r"}

RECURSIVE LStrip(_)
LStrip(s) == IF s # <<>> /\ IsSpace(Head(s)) THEN LStrip(Tail(s)) ELSE s

RECURSIVE RStrip(_)
RStrip(s) ==
    IF s # <<>> /\ IsSpace(s[Len(s)]) THEN RStrip(SubSeq(s, 1, Len(s) - 1)) ELSE s

RECURSIVE DigitsValue(_, _)
DigitsValue(s, acc) ==
    IF s = <<>> THEN acc
    ELSE DigitsValue(Tail(s), acc * 10 + DigitValue(Head(s)))

\* int(s, 10): surrounding whitespace is skipped, one leading sign is
\* accepted, then at least one digit and nothing else.  ok = FALSE is
\* ValueError.
int(s) ==
    LET t      == RStrip(LStrip(s))
        signed == t # <<>> /\ Head(t) \in {"+", "-"}
        d      == IF signed THEN Tail(t) ELSE t
        ok     == d # <<>> /\ \A i \in 1..Len(d) : d[i] \in DigitSet
        v      == IF ok THEN DigitsValue(d, 0) ELSE 0
    IN  [ok |-> ok, val |-> IF signed /\ Head(t) = "-" THEN 0 - v ELSE v]

\* fp.read(n): at most n bytes from the current offset, fewer at end of
\* file; everything that is left when n is negative.
read(n) ==
    IF n < 0 THEN SubSeq(fp, pos + 1, Len(fp))
    ELSE SubSeq(fp, pos + 1, Min(pos + n, Len(fp)))

-----------------------------------------------------------------------------
(* dump_cursor_to_fp *)

\* A frame whose header declares the two lengths in the wrong order.
Frame_LenSwapped(k, v) ==
    <<"+">> \o FormatD(Len(v)) \o <<",">> \o FormatD(Len(k)) \o <<":">>
        \o k \o <<"-", ">">> \o v \o <<"\n">>

\* The five writes of one iteration of the for loop.
Frame(k, v) ==
    <<"+">> \o FormatD(Len(k)) \o <<",">> \o FormatD(Len(v)) \o <<":">>
        \o k \o <<"-", ">">> \o v \o <<"\n">>

DumpFrame ==
    /\ pc = "dump"
    /\ idx < Len(cursor)
    /\ fp' = fp \o Frame(cursor[idx + 1].key, cursor[idx + 1].value)
    /\ idx' = idx + 1
    /\ UNCHANGED <<watch_vars, render_vars, cursor, fault, pc, pos, rec_nr, buf, klen, dlen, key,
                   puts, err, result>>

DumpEnd ==
    /\ pc = "dump"
    /\ idx = Len(cursor)
    /\ fp' = fp \o <<"\n">>
    /\ pc' = "dumped"
    /\ UNCHANGED <<watch_vars, render_vars, cursor, idx, fault, pos, rec_nr, buf, klen, dlen, key,
                   puts, err, result>>

dump_cursor_to_fp == DumpFrame \/ DumpEnd

-----------------------------------------------------------------------------
(* The file cmd_restore opens: the dump, or the dump damaged in one place *)

NoFault == [kind |-> "none", at |-> 0, byte |-> ""]

Faults(s) ==
    {NoFault}
    \cup {[kind |-> "trunc", at |-> t, byte |-> ""] : t \in 0..(Len(s) - 1)}
    \cup {[kind |-> "del", at |-> p, byte |-> ""] : p \in 1..Len(s)}
    \cup {[kind |-> "repl", at |-> p, byte |-> b] :
              p \in 1..Len(s), b \in FaultBytes}
    \cup {[kind |-> "ins", at |-> p, byte |-> b] :
              p \in 1..Len(s), b \in FaultBytes}

\* trunc keeps the first `at` bytes; del drops byte `at`; repl overwrites
\* byte `at`; ins puts a byte in front of byte `at`.
Damage(s, f) ==
    CASE f.kind = "none"  -> s
      [] f.kind = "trunc" -> SubSeq(s, 1, f.at)
      [] f.kind = "del"   -> SubSeq(s, 1, f.at - 1) \o SubSeq(s, f.at + 1, Len(s))
      [] f.kind = "repl"  -> [s EXCEPT ![f.at] = f.byte]
      [] f.kind = "ins"   -> SubSeq(s, 1, f.at - 1) \o <<f.byte>>
                                 \o SubSeq(s, f.at, Len(s))

cmd_restore ==
    /\ pc = "dumped"
    /\ \E f \in Faults(fp) :
          /\ f.kind # "none" => \A i \in 1..Len(cursor) : cursor[i] \in FaultRecords
          /\ f.kind = "repl" => fp[f.at] # f.byte
          /\ fault' = f
          /\ fp' = Damage(fp, f)
    /\ pc' = "plus"
    /\ pos' = 0
    /\ rec_nr' = 0
    /\ UNCHANGED <<watch_vars, render_vars, cursor, idx, buf, klen, dlen, key, puts, err, result>>

-----------------------------------------------------------------------------
(* restore_cursor_from_fp *)

NoErr == [msg |-> "", rec |-> 0]

\* A die() that reports the record index 0-based.
die_zero_based(msg, n) ==
    /\ err' = [msg |-> msg, rec |-> n - 1]
    /\ pc' = "died"

\* die(fmt, rec_nr): one line on stderr, then SystemExit(1).
die(msg, n) ==
    /\ err' = [msg |-> msg, rec |-> n]
    /\ pc' = "died"

BadPlus      == "bad or missing plus"
BadLength    == "bad or missing length"
BadSeparator == "bad or missing separator"
ShortRecord  == "short key or data"
BadEnding    == "bad line ending"

\* A ReadPlus that takes end of file for the end marker.
ReadPlus_EofEnds ==
    /\ pc = "plus"
    /\ rec_nr' = rec_nr + 1
    /\ LET plus == read(1) IN
          /\ pos' = pos + Len(plus)
          /\ IF plus = <<"\n">> \/ plus = <<>>
             THEN /\ pc' = "returned"
                  /\ result' = rec_nr'
                  /\ UNCHANGED err
             ELSE IF plus # <<"+">>
             THEN /\ die(BadPlus, rec_nr')
                  /\ UNCHANGED result
             ELSE /\ pc' = "klen"
                  /\ UNCHANGED <<err, result>>
    /\ UNCHANGED <<watch_vars, render_vars, cursor, idx, fp, fault, buf, klen, dlen, key, puts>>

\* rec_nr += 1; plus = read(1); the end marker, a frame, or die.
ReadPlus ==
    /\ pc = "plus"
    /\ rec_nr' = rec_nr + 1
    /\ LET plus == read(1) IN
          /\ pos' = pos + Len(plus)
          /\ IF plus = <<"\n">>
             THEN /\ pc' = "returned"
                  /\ result' = rec_nr'
                  /\ UNCHANGED err
             ELSE IF plus # <<"+">>
             THEN /\ die(BadPlus, rec_nr')
                  /\ UNCHANGED result
             ELSE /\ pc' = "klen"
                  /\ UNCHANGED <<err, result>>
    /\ UNCHANGED <<watch_vars, render_vars, cursor, idx, fp, fault, buf, klen, dlen, key, puts>>

\* One step of ''.join(iter(read1, sep)): a read of one byte.  The loop
\* ends only when that byte is sep; at end of file read1 returns '' and the
\* loop goes on with nothing changed.  When it ends, int() of the joined
\* bytes gives the length, or ValueError and die.
read_until(at, sep, next) ==
    /\ pc = at
    /\ LET c == read(1) IN
          /\ pos' = pos + Len(c)
          /\ IF c = <<sep>>
             THEN LET n == int(buf) IN
                  /\ buf' = <<>>
                  /\ IF n.ok
                     THEN /\ pc' = next
                          /\ klen' = IF at = "klen" THEN n.val ELSE klen
                          /\ dlen' = IF at = "dlen" THEN n.val ELSE dlen
                          /\ UNCHANGED err
                     ELSE /\ die(BadLength, rec_nr)
                          /\ UNCHANGED <<klen, dlen>>
             ELSE /\ buf' = buf \o c
                  /\ UNCHANGED <<pc, klen, dlen, err>>
    /\ UNCHANGED <<watch_vars, render_vars, cursor, idx, fp, fault, rec_nr, key, puts, result>>

ReadKlen == read_until("klen", ",", "dlen")
ReadDlen == read_until("dlen", ":", "key")

\* key = read(klen); if read(2) != '->': die.
ReadKey ==
    /\ pc = "key"
    /\ LET k == read(klen) IN
          /\ key' = k
          /\ pos' = pos + Len(k)
    /\ pc' = "sep"
    /\ UNCHANGED <<watch_vars, render_vars, cursor, idx, fp, fault, rec_nr, buf, klen, dlen, puts,
                   err, result>>

\* A ReadSep that only looks at the first of the two bytes.
ReadSep_FirstByte ==
    /\ pc = "sep"
    /\ LET s == read(2) IN
          /\ pos' = pos + Len(s)
          /\ IF s = <<>> \/ Head(s) # "-"
             THEN die(BadSeparator, rec_nr)
             ELSE pc' = "data" /\ UNCHANGED err
    /\ UNCHANGED <<watch_vars, render_vars, cursor, idx, fp, fault, rec_nr, buf, klen, dlen, key,
                   puts, result>>

\* if read(2) != '->': die.
ReadSep ==
    /\ pc = "sep"
    /\ LET s == read(2) IN
          /\ pos' = pos + Len(s)
          /\ IF s # <<"-", ">">>
             THEN die(BadSeparator, rec_nr)
             ELSE pc' = "data" /\ UNCHANGED err
    /\ UNCHANGED <<watch_vars, render_vars, cursor, idx, fp, fault, rec_nr, buf, klen, dlen, key,
                   puts, result>>

\* A ReadData that calls txn.put before it has checked the line ending.
ReadData_PutFirst ==
    /\ pc = "data"
    /\ LET data == read(dlen)
           eol  == SubSeq(fp, pos + Len(data) + 1,
                          Min(pos + Len(data) + 1, Len(fp)))
       IN  IF Len(key) + Len(data) # klen + dlen
           THEN /\ pos' = pos + Len(data)
                /\ die(ShortRecord, rec_nr)
                /\ UNCHANGED puts
           ELSE /\ pos' = pos + Len(data) + Len(eol)
                /\ puts' = Append(puts, Rec(key, data))
                /\ IF eol # <<"\n">>
                   THEN die(BadEnding, rec_nr)
                   ELSE pc' = "plus" /\ UNCHANGED err
    /\ UNCHANGED <<watch_vars, render_vars, cursor, idx, fp, fault, rec_nr, buf, klen, dlen,
                   key, result>>

\* data = read(dlen); the length check; the line ending; txn.put.
ReadData ==
    /\ pc = "data"
    /\ LET data == read(dlen)
           eol  == SubSeq(fp, pos + Len(data) + 1,
                          Min(pos + Len(data) + 1, Len(fp)))
       IN  IF Len(key) + Len(data) # klen + dlen
           THEN /\ pos' = pos + Len(data)
                /\ die(ShortRecord, rec_nr)
                /\ UNCHANGED puts
           ELSE /\ pos' = pos + Len(data) + Len(eol)
                /\ IF eol # <<"\n">>
                   THEN /\ die(BadEnding, rec_nr)
                        /\ UNCHANGED puts
                   ELSE /\ puts' = Append(puts, Rec(key, data))
                        /\ pc' = "plus"
                        /\ UNCHANGED err
    /\ UNCHANGED <<watch_vars, render_vars, cursor, idx, fp, fault, rec_nr, buf, klen, dlen, key,
                   result>>

restore_cursor_from_fp ==
    ReadPlus \/ ReadKlen \/ ReadDlen \/ ReadKey \/ ReadSep \/ ReadData

-----------------------------------------------------------------------------

(* The terminal-size cache: _get_term_width, _on_sigwinch, main *)

\* The default of _get_term_width.
DefaultWidth == 80

\* The default of --window.
DefaultWindow == 10

\* The sizes the terminal takes: between them the width changes alone, the
\* height alone, and both.
TermSizes ==
    { [width |-> 80, height |-> 24],
      [width |-> 120, height |-> 24],
      [width |-> 120, height |-> 4] }

\* _get_term_width(): the pair (width, height) the terminal reports, or, when
\* the ioctl raises, the default: a bare integer.
_get_term_width ==
    IF tty
    THEN [kind |-> "tuple", val |-> <<winsz.width, winsz.height>>]
    ELSE [kind |-> "int", val |-> DefaultWidth]

\* _TERM_WIDTH, _TERM_HEIGHT = _get_term_width(): unpacking a pair assigns
\* both globals; unpacking an integer raises TypeError and assigns neither.
\* The exception is not caught anywhere, so it ends the process.
Refresh(after) ==
    LET r == _get_term_width IN
    IF r.kind = "tuple" /\ Len(r.val) = 2
    THEN /\ _TERM_WIDTH' = <<r.val[1]>>
         /\ _TERM_HEIGHT' = <<r.val[2]>>
         /\ mpc' = after
         /\ UNCHANGED exc
    ELSE /\ exc' = "TypeError"
         /\ mpc' = "crashed"
         /\ UNCHANGED <<_TERM_WIDTH, _TERM_HEIGHT>>

Alive == mpc \in {"installed", "dispatch", "watch"}

\* The positions of cmd_watch inside its try block.
InLoop == {"sample", "csvrow", "chkw", "chkh", "head", "headnl", "setw",
           "data", "datanl", "sleep"}

\* The terminal is resized: the kernel sends SIGWINCH, which is ignored
\* until a handler is installed.
Resize ==
    /\ tty
    /\ mpc \in {"start", "installed", "dispatch", "watch"}
    /\ \E sz \in TermSizes \ {winsz} : winsz' = sz
    /\ sigpending' = (mpc # "start")
    /\ UNCHANGED <<codec_vars, render_vars, tty, _TERM_WIDTH, _TERM_HEIGHT, mpc, exc,
                   window, interval, history, samples, rate>>

\* The handler run for a pending SIGWINCH.
_on_sigwinch ==
    /\ sigpending
    /\ Alive
    /\ sigpending' = FALSE
    /\ Refresh(mpc)
    /\ wchg' = IF /\ wpc \in InLoop
                  /\ ~csv
                  /\ wchg = <<>>
                  /\ _TERM_WIDTH' # _TERM_WIDTH
               THEN <<cnt>>
               ELSE wchg
    /\ UNCHANGED <<codec_vars, tty, winsz, window, interval, history, samples,
                   rate, csv, wpc, cnt, term_width, widths, vals, col, seen_h,
                   out, snap>>

\* signal.signal(signal.SIGWINCH, _on_sigwinch)
MainInstall ==
    /\ mpc = "start"
    /\ mpc' = "installed"
    /\ UNCHANGED <<codec_vars, render_vars, tty, winsz, sigpending, _TERM_WIDTH, _TERM_HEIGHT, exc,
                   window, interval, history, samples, rate>>

\* _on_sigwinch(), called by main itself.
MainRefresh ==
    /\ mpc = "installed"
    /\ Refresh("dispatch")
    /\ UNCHANGED <<codec_vars, render_vars, tty, winsz, sigpending, window, interval, history,
                   samples, rate>>

\* func = globals().get('cmd_' + args[0]); func(opts, args[1:]), for the
\* command watch.
MainDispatch ==
    /\ mpc = "dispatch"
    /\ mpc' = "watch"
    /\ UNCHANGED <<codec_vars, render_vars, tty, winsz, sigpending, _TERM_WIDTH, _TERM_HEIGHT, exc,
                   window, interval, history, samples, rate>>

main == MainInstall \/ MainRefresh \/ MainDispatch

-----------------------------------------------------------------------------
(* The windowed sampler of cmd_watch *)

SampleValues == {10, 20, 40, 70}

Windows == (1..MaxWindow) \cup {DefaultWindow}

Intervals == {1, 2}

\* A delta() whose range stops one short.
delta_skip_last(hst) == [i \in 1..(Len(hst) - 2) |-> hst[i + 1] - hst[i]]

\* delta(hst): the differences of consecutive entries.
delta(hst) == [i \in 1..(Len(hst) - 1) |-> hst[i + 1] - hst[i]]

RECURSIVE sum(_)
sum(s) == IF s = <<>> THEN 0 ELSE Head(s) + sum(Tail(s))

\* An eviction that already fires at len(history) == opts.window.
evict_ge(h) == IF Len(h) >= window THEN Tail(h) ELSE h

\* if len(history) > opts.window: history.popleft()
evict(h) == IF Len(h) > window THEN Tail(h) ELSE h

Zero == [num |-> 0, den |-> 1]

\* The value returned for history h: 0, or sum(delta) / float(len - 1) /
\* interval, kept as an exact fraction.
rate_of(h) ==
    IF Len(h) <= 1 THEN Zero
    ELSE [num |-> sum(delta(h)), den |-> (Len(h) - 1) * interval]

\* One call of windowfunc(), func() returning v.
windowfunc ==
    /\ mpc = "watch"
    /\ Len(samples) < MaxTicks
    /\ \E v \in SampleValues :
          LET h == evict(Append(history, v)) IN
          /\ history' = h
          /\ rate' = rate_of(h)
          /\ samples' = Append(samples, v)
    /\ UNCHANGED <<codec_vars, render_vars, tty, winsz, sigpending, _TERM_WIDTH, _TERM_HEIGHT, mpc,
                   exc, window, interval>>

-----------------------------------------------------------------------------
(* The loop of cmd_watch *)

\* The most ticks one run of the loop is followed for.
MaxRows == 3

\* What stat['entries'] may be at a tick: a short value and one wider than
\* any column label.
RenderValues == {7, 1234567}

\* The --window values the loop is run with; --interval is its default.
RenderWindows == {2}

\* Two of the entries of cols, both reading stat['entries']: a plain column
\* and its windowed rate.  fmt is the conversion after the % sign.
Recs == [fmt |-> "d", head |-> <<"R", "e", "c", "s">>, win |-> FALSE]

RecsPerSec ==
    [fmt |-> "+d", head |-> <<"R", "e", "c", "s", "/", "s">>, win |-> TRUE]

cols == <<Recs, RecsPerSec>>

NCols == Len(cols)

\* int(x) of a fraction: rounds towards zero.
Trunc(x) ==
    IF x.num >= 0 THEN x.num \div x.den ELSE 0 - ((0 - x.num) \div x.den)

\* '%d' % n
PercentD(n) == IF n < 0 THEN <<"-">> \o FormatD(0 - n) ELSE FormatD(n)

\* '%+d' % n
PercentPlusD(n) == IF n < 0 THEN <<"-">> \o FormatD(0 - n) ELSE <<"+">> \o FormatD(n)

\* fmt % func() of column c, at a tick where stat['entries'] is v and the
\* windowfunc returns r.
Cell(c, v, r) == IF c.win THEN PercentPlusD(Trunc(r)) ELSE PercentD(v)

Spaces(n) == [i \in 1..n |-> " "]

\* s.rjust(n)
rjust(s, n) == IF Len(s) >= n THEN s ELSE Spaces(n - Len(s)) \o s

\* A field as csv.writer writes it with quoting=csv.QUOTE_ALL.
Quote(s) == <<"\"">> \o s \o <<"\"">>

\* A row of stdout: the cells written so far and whether its newline was.
Row(kind, cells, nl) ==
    [kind |-> kind, tick |-> cnt, cells |-> cells, nl |-> nl]

\* sys.stdout.write(s), s being cell number col of a row of the given kind.
WriteCell(kind, s) ==
    IF col = 1
    THEN Append(out, Row(kind, <<s>>, FALSE))
    ELSE [out EXCEPT ![Len(out)].cells = Append(out[Len(out)].cells, s)]

\* sys.stdout.write('\n')
WriteNewline == [out EXCEPT ![Len(out)].nl = TRUE]

\* The statements of cmd_watch before its loop.
WatchStart ==
    /\ mpc = "watch"
    /\ wpc = "init"
    /\ term_width' = 0
    /\ widths' = [i \in 1..NCols |-> Len(cols[i].head)]
    /\ out' = IF csv
              THEN <<Row("head", [i \in 1..NCols |-> Quote(cols[i].head)], TRUE)>>
              ELSE out
    /\ cnt' = 0
    /\ wpc' = "sample"
    /\ UNCHANGED <<codec_vars, watch_vars, csv, vals, col, seen_h, snap, wchg>>

\* widths[i] = len(val): the column follows the last value only.
Widen_last(w, vs) == [i \in 1..NCols |-> Len(vs[i])]

\* widths[i] = max(widths[i], len(val)), for every column.
Widen(w, vs) == [i \in 1..NCols |-> Max(w[i], Len(vs[i]))]

\* ENV.stat(), ENV.info() and the loop over cols that fills vals and widths.
WatchSample ==
    /\ mpc = "watch"
    /\ wpc = "sample"
    /\ cnt < MaxRows
    /\ \E v \in RenderValues :
          LET h == evict(Append(history, v))
              vs == [i \in 1..NCols |-> Cell(cols[i], v, rate_of(h))] IN
          /\ history' = h
          /\ rate' = rate_of(h)
          /\ samples' = Append(samples, v)
          /\ vals' = vs
          /\ widths' = Widen(widths, vs)
    /\ seen_h' = <<>>
    /\ wpc' = IF csv THEN "csvrow" ELSE "chkw"
    /\ UNCHANGED <<codec_vars, tty, winsz, sigpending, _TERM_WIDTH,
                   _TERM_HEIGHT, mpc, exc, window, interval, csv, cnt,
                   term_width, col, out, snap, wchg>>

\* The csv branch taken for the terminal too.
WatchCsvRow_Table ==
    /\ mpc = "watch"
    /\ wpc = "csvrow"
    /\ out' = Append(out, Row("head", [i \in 1..NCols |-> Quote(cols[i].head)], TRUE))
                 \o <<Row("data", [i \in 1..NCols |-> Quote(vals[i])], TRUE)>>
    /\ wpc' = "sleep"
    /\ UNCHANGED <<codec_vars, watch_vars, csv, cnt, term_width, widths, vals,
                   col, seen_h, snap, wchg>>

\* writer.writerow(vals)
WatchCsvRow ==
    /\ mpc = "watch"
    /\ wpc = "csvrow"
    /\ out' = Append(out, Row("data", [i \in 1..NCols |-> Quote(vals[i])], TRUE))
    /\ wpc' = "sleep"
    /\ UNCHANGED <<codec_vars, watch_vars, csv, cnt, term_width, widths, vals,
                   col, seen_h, snap, wchg>>

\* The left operand of the header test: term_width != _TERM_WIDTH.  When it
\* is true the right operand is not evaluated.
WatchCheckWidth ==
    /\ mpc = "watch"
    /\ wpc = "chkw"
    /\ snap' = << <<_TERM_WIDTH[1], _TERM_HEIGHT[1]>> >>
    /\ IF term_width # _TERM_WIDTH[1]
       THEN /\ wpc' = "head"
            /\ wchg' = <<>>
       ELSE /\ wpc' = "chkh"
            /\ UNCHANGED wchg
    /\ col' = 1
    /\ UNCHANGED <<codec_vars, watch_vars, csv, cnt, term_width, widths, vals,
                   seen_h, out>>

\* The right operand: not (cnt % (_TERM_HEIGHT - 2)).
WatchCheckHeight ==
    /\ mpc = "watch"
    /\ wpc = "chkh"
    /\ seen_h' = _TERM_HEIGHT
    /\ IF _TERM_HEIGHT[1] - 2 = 0
       THEN /\ mpc' = "crashed"
            /\ exc' = "ZeroDivisionError"
            /\ UNCHANGED <<wpc, wchg>>
       ELSE /\ UNCHANGED <<mpc, exc>>
            /\ IF cnt % (_TERM_HEIGHT[1] - 2) = 0
               THEN /\ wpc' = "head"
                    /\ wchg' = <<>>
               ELSE /\ wpc' = "data"
                    /\ UNCHANGED wchg
    /\ snap' = Append(snap, <<_TERM_WIDTH[1], _TERM_HEIGHT[1]>>)
    /\ UNCHANGED <<codec_vars, tty, winsz, sigpending, _TERM_WIDTH,
                   _TERM_HEIGHT, window, interval, history, samples, rate,
                   csv, cnt, term_width, widths, vals, col, out>>

\* sys.stdout.write(head.rjust(widths[i] + 1)), one column per step.
WatchHead ==
    /\ mpc = "watch"
    /\ wpc = "head"
    /\ out' = WriteCell("head", rjust(cols[col].head, widths[col] + 1))
    /\ IF col = NCols
       THEN wpc' = "headnl" /\ col' = 1
       ELSE col' = col + 1 /\ UNCHANGED wpc
    /\ snap' = <<>>
    /\ UNCHANGED <<codec_vars, watch_vars, csv, cnt, term_width, widths, vals,
                   seen_h, wchg>>

\* sys.stdout.write('\n'), ending the header row.
WatchHeadNewline ==
    /\ mpc = "watch"
    /\ wpc = "headnl"
    /\ out' = WriteNewline
    /\ wpc' = "setw"
    /\ UNCHANGED <<codec_vars, watch_vars, csv, cnt, term_width, widths, vals,
                   col, seen_h, snap, wchg>>

\* term_width = _TERM_WIDTH: the global is loaded again.
WatchSetWidth ==
    /\ mpc = "watch"
    /\ wpc = "setw"
    /\ term_width' = _TERM_WIDTH[1]
    /\ wpc' = "data"
    /\ UNCHANGED <<codec_vars, watch_vars, csv, cnt, widths, vals, col, seen_h,
                   out, snap, wchg>>

\* The header's column width used for the value cells as well.
WatchData_HeadWidth ==
    /\ mpc = "watch"
    /\ wpc = "data"
    /\ out' = WriteCell("data", rjust(vals[col], Len(cols[col].head) + 1))
    /\ IF col = NCols
       THEN wpc' = "datanl" /\ col' = 1
       ELSE col' = col + 1 /\ UNCHANGED wpc
    /\ snap' = <<>>
    /\ seen_h' = <<>>
    /\ UNCHANGED <<codec_vars, watch_vars, csv, cnt, term_width, widths, vals,
                   wchg>>

\* sys.stdout.write(val.rjust(widths[i] + 1)), one column per step.
WatchData ==
    /\ mpc = "watch"
    /\ wpc = "data"
    /\ out' = WriteCell("data", rjust(vals[col], widths[col] + 1))
    /\ IF col = NCols
       THEN wpc' = "datanl" /\ col' = 1
       ELSE col' = col + 1 /\ UNCHANGED wpc
    /\ snap' = <<>>
    /\ seen_h' = <<>>
    /\ UNCHANGED <<codec_vars, watch_vars, csv, cnt, term_width, widths, vals,
                   wchg>>

\* sys.stdout.write('\n'), ending the row of values.
WatchDataNewline ==
    /\ mpc = "watch"
    /\ wpc = "datanl"
    /\ out' = WriteNewline
    /\ wpc' = "sleep"
    /\ UNCHANGED <<codec_vars, watch_vars, csv, cnt, term_width, widths, vals,
                   col, seen_h, snap, wchg>>

\* time.sleep(opts.interval); cnt += 1
WatchSleep ==
    /\ mpc = "watch"
    /\ wpc = "sleep"
    /\ cnt' = cnt + 1
    /\ wpc' = "sample"
    /\ UNCHANGED <<codec_vars, watch_vars, csv, term_width, widths, vals, col,
                   seen_h, out, snap, wchg>>

\* SIGINT: KeyboardInterrupt is raised between two steps of the loop and
\* caught by the except clause around it; cmd_watch returns, and main()
\* with it.
KeyboardInterrupt ==
    /\ mpc = "watch"
    /\ wpc \in InLoop
    /\ wpc' = "stopped"
    /\ mpc' = "returned"
    /\ UNCHANGED <<codec_vars, tty, winsz, sigpending, _TERM_WIDTH,
                   _TERM_HEIGHT, exc, window, interval, history, samples,
                   rate, csv, cnt, term_width, widths, vals, col, seen_h, out,
                   snap, wchg>>

cmd_watch ==
    \/ WatchStart
    \/ WatchSample
    \/ WatchCsvRow
    \/ WatchCheckWidth
    \/ WatchCheckHeight
    \/ WatchHead
    \/ WatchHeadNewline
    \/ WatchSetWidth
    \/ WatchData
    \/ WatchDataNewline
    \/ WatchSleep

-----------------------------------------------------------------------------
(* Specifications *)

CodecInit ==
    /\ cursor \in SeqsUpTo(Records \cup FaultRecords, MaxRecs)
    /\ idx = 0
    /\ fp = <<>>
    /\ fault = NoFault
    /\ pc = "dump"
    /\ pos = 0
    /\ rec_nr = 0
    /\ buf = <<>>
    /\ klen = 0
    /\ dlen = 0
    /\ key = <<>>
    /\ puts = <<>>
    /\ err = NoErr
    /\ result = 0

\* No dump or restore is running.
CodecIdle ==
    /\ cursor = <<>>
    /\ idx = 0
    /\ fp = <<>>
    /\ fault = NoFault
    /\ pc = "idle"
    /\ pos = 0
    /\ rec_nr = 0
    /\ buf = <<>>
    /\ klen = 0
    /\ dlen = 0
    /\ key = <<>>
    /\ puts = <<>>
    /\ err = NoErr
    /\ result = 0

WatchInit ==
    /\ tty \in BOOLEAN
    /\ winsz \in TermSizes
    /\ sigpending = FALSE
    /\ _TERM_WIDTH = <<>>
    /\ _TERM_HEIGHT = <<>>
    /\ mpc = "start"
    /\ exc = ""
    /\ window \in Windows
    /\ interval \in Intervals
    /\ history = <<>>
    /\ samples = <<>>
    /\ rate = Zero

\* main() is not running the watch command.
WatchIdle ==
    /\ tty = FALSE
    /\ winsz = [width |-> 80, height |-> 24]
    /\ sigpending = FALSE
    /\ _TERM_WIDTH = <<>>
    /\ _TERM_HEIGHT = <<>>
    /\ mpc = "idle"
    /\ exc = ""
    /\ window = DefaultWindow
    /\ interval = 1
    /\ history = <<>>
    /\ samples = <<>>
    /\ rate = Zero

\* cmd_watch has not been entered.
RenderIdle ==
    /\ csv = FALSE
    /\ wpc = "init"
    /\ cnt = 0
    /\ term_width = 0
    /\ widths = <<>>
    /\ vals = <<>>
    /\ col = 1
    /\ seen_h = <<>>
    /\ out = <<>>
    /\ snap = <<>>
    /\ wchg = <<>>

\* dump then restore of one database.
Init == CodecInit /\ WatchIdle /\ RenderIdle

Next == dump_cursor_to_fp \/ cmd_restore \/ restore_cursor_from_fp

Spec == Init /\ [][Next]_vars

\* main() running the watch command.
InitWatch == WatchInit /\ CodecIdle /\ RenderIdle

NextWatch == main \/ Resize \/ _on_sigwinch \/ windowfunc

WatchSpec == InitWatch /\ [][NextWatch]_vars

\* The watch command with its loop: main(), SIGWINCH, SIGINT and cmd_watch.
InitRender ==
    /\ tty \in BOOLEAN
    /\ winsz \in TermSizes
    /\ sigpending = FALSE
    /\ _TERM_WIDTH = <<>>
    /\ _TERM_HEIGHT = <<>>
    /\ mpc = "start"
    /\ exc = ""
    /\ window \in RenderWindows
    /\ interval = 1
    /\ history = <<>>
    /\ samples = <<>>
    /\ rate = Zero
    /\ CodecIdle
    /\ csv \in BOOLEAN
    /\ wpc = "init"
    /\ cnt = 0
    /\ term_width = 0
    /\ widths = <<>>
    /\ vals = <<>>
    /\ col = 1
    /\ seen_h = <<>>
    /\ out = <<>>
    /\ snap = <<>>
    /\ wchg = <<>>

NextRender ==
    main \/ Resize \/ _on_sigwinch \/ cmd_watch \/ KeyboardInterrupt

RenderSpec == InitRender /\ [][NextRender]_vars

-----------------------------------------------------------------------------
(* The layout of the undamaged dump of `cursor`, in byte offsets *)

Terminal == {"returned", "died"}

HeaderLen(r) ==
    1 + Len(FormatD(Len(r.key))) + 1 + Len(FormatD(Len(r.value))) + 1

\* Bytes of the dump in front of frame n (n = Len(cursor) + 1: in front of
\* the end marker).
RECURSIVE FrameStart(_)
FrameStart(n) ==
    IF n <= 1 THEN 0
    ELSE FrameStart(n - 1) + Len(Frame(cursor[n - 1].key, cursor[n - 1].value))

KeyStart(n) == FrameStart(n) + HeaderLen(cursor[n])
ValStart(n) == KeyStart(n) + Len(cursor[n].key) + 2

\* Key and value bytes of record n that a file cut to its first `cut` bytes
\* still holds.
Obtained(n, cut) ==
    Max(0, Min(cut - KeyStart(n), Len(cursor[n].key)))
        + Max(0, Min(cut - ValStart(n), Len(cursor[n].value)))

\* The frame the byte at 1-based offset p of the dump belongs to;
\* Len(cursor) + 1 for the end marker.
FrameOf(p) ==
    CHOOSE n \in 1..(Len(cursor) + 1) :
        /\ FrameStart(n) < p
        /\ n <= Len(cursor) => p <= FrameStart(n + 1)

\* The first frame the fault touches: the frames in front of it reach the
\* reader as they were written.
FaultFrame ==
    CASE fault.kind = "none"  -> Len(cursor) + 1
      [] fault.kind = "trunc" -> FrameOf(fault.at + 1)
      [] OTHER                -> FrameOf(fault.at)

Restoring == pc \notin {"dump", "dumped"}

IsDigitString(s) == s # <<>> /\ \A i \in 1..Len(s) : s[i] \in DigitSet

-----------------------------------------------------------------------------
(* Claims *)

\* C1: restoring exactly the bytes dump_cursor_to_fp wrote raises no error
\* and calls txn.put once per record, with the same key and value, in the
\* order of the cursor.
C1_RoundTrip ==
    (Restoring /\ fault.kind = "none") =>
        /\ pc # "died"
        /\ Len(puts) <= Len(cursor)
        /\ puts = SubSeq(cursor, 1, Len(puts))
        /\ pc = "returned" => puts = cursor

C1_Witness ==
    /\ pc = "returned"
    /\ fault.kind = "none"
    /\ Len(cursor) = 2
    /\ Len(cursor[1].key) = 10
    /\ cursor[2] = Rec(<<"\n">>, <<"+", "1">>)
    /\ puts = cursor

\* C2: the value restore_cursor_from_fp returns is the number of records it
\* handed to txn.put (0 for the stream that holds only the end marker).
C2_ReturnsCount == pc = "returned" => result = Len(puts)

\* C3: restore_cursor_from_fp terminates on every finite stream: until it
\* has returned or died, its next step makes progress (it never reaches a
\* state that its own step leaves unchanged, reading forever).
C3_Terminates == Restoring => (pc \in Terminal \/ ENABLED <<Next>>_vars)

\* C4: a file that ends in the middle of record n, holding fewer key and
\* value bytes of it than keylen + vallen, is rejected with the short-record
\* diagnostic for record n.
C4_ShortRecord ==
    \A n \in 1..Len(cursor) :
        ( /\ fault.kind = "trunc"
          /\ KeyStart(n) <= fault.at
          /\ fault.at < FrameStart(n + 1)
          /\ Obtained(n, fault.at) < Len(cursor[n].key) + Len(cursor[n].value)
          /\ pc \in Terminal )
        => (pc = "died" /\ err = [msg |-> ShortRecord, rec |-> n])

\* C5: a file of N >= 1 frames that ends inside the value of the last
\* record, at least one value byte short, is rejected with the short-record
\* diagnostic for record N, after records 1..N-1 have been applied.
C5_Truncated ==
    LET N == Len(cursor) IN
    ( /\ Restoring
      /\ N >= 1
      /\ fault.kind = "trunc"
      /\ ValStart(N) <= fault.at
      /\ fault.at < ValStart(N) + Len(cursor[N].value) )
    => /\ pc \in Terminal \/ ENABLED <<Next>>_vars
       /\ pc # "returned"
       /\ pc = "died" =>
             /\ err = [msg |-> ShortRecord, rec |-> N]
             /\ puts = SubSeq(cursor, 1, N - 1)

C5_Witness ==
    /\ pc = "died"
    /\ Len(cursor) = 2
    /\ fault.kind = "trunc"
    /\ fault.at = ValStart(2) + 1
    /\ err = [msg |-> ShortRecord, rec |-> 2]
    /\ puts = <<cursor[1]>>

\* C6: when the text of a length field (up to ',' for keylen, up to ':' for
\* vallen) is not a non-empty string of decimal digits, the step that reads
\* the delimiter dies with the bad-length diagnostic for the current record
\* and makes no call of txn.put.
C6_BadLength ==
    [][ ( \/ pc = "klen" /\ read(1) = <<",">>
          \/ pc = "dlen" /\ read(1) = <<":">> )
        /\ ~IsDigitString(buf)
        => /\ pc' = "died"
           /\ err' = [msg |-> BadLength, rec |-> rec_nr]
           /\ puts' = puts ]_vars

\* C7: when decoding fails at record N, txn.put has been called exactly
\* N - 1 times, for the records in front of N in stream order (those in
\* front of the damaged frame are the ones that were dumped), the diagnostic
\* carries N, and nothing more is read or applied.
C7_AbortPrefix ==
    pc = "died" =>
        /\ err.rec = rec_nr
        /\ err.msg \in {BadPlus, BadLength, BadSeparator, ShortRecord, BadEnding}
        /\ Len(puts) = rec_nr - 1
        /\ \A i \in 1..Len(puts) : i < FaultFrame => puts[i] = cursor[i]
        /\ rec_nr >= FaultFrame
        /\ pos <= Len(fp)
        /\ ~ENABLED <<Next>>_vars

C7_Witness ==
    /\ pc = "died"
    /\ err = [msg |-> BadEnding, rec |-> 2]
    /\ puts = <<cursor[1]>>

\* C8: a call of the windowfunc appends one sample and returns 0 while the
\* retained history has at most one entry, else the mean of the consecutive
\* differences over the interval, which is (newest - oldest) / (length - 1)
\* / interval; for samples 10, 20, 40, 70 with window 10 and interval 1 the
\* calls return 0, 10, 15, 20.
C8_Rate ==
    (mpc = "watch" /\ samples # <<>>) =>
        LET n == Len(history)
            k == Len(samples)
            expected == <<0, 10, 15, 20>>
        IN  /\ n >= 1
            /\ history[n] = samples[k]
            /\ n <= 1 => rate = Zero
            /\ n > 1 =>
                  /\ rate.den = (n - 1) * interval
                  /\ rate.num = history[n] - history[1]
            /\ ( /\ window = 10
                 /\ interval = 1
                 /\ k <= 4
                 /\ samples = SubSeq(<<10, 20, 40, 70>>, 1, k) )
               => rate.num = expected[k] * rate.den

C8_Witness ==
    /\ window = 10
    /\ interval = 1
    /\ samples = <<10, 20, 40, 70>>
    /\ rate = [num |-> 60, den |-> 3]

\* C9: after k calls with window size w >= 1 the retained history holds
\* exactly the last min(k, w) samples, oldest first, never more than w, and
\* the rate returned is the one those samples alone determine.
C9_Window ==
    mpc = "watch" =>
        LET k == Len(samples)
            n == Min(k, window)
        IN  /\ Len(history) = n
            /\ Len(history) <= window
            /\ history = SubSeq(samples, k - n + 1, k)
            /\ IF n <= 1
               THEN rate = Zero
               ELSE rate.num * ((n - 1) * interval)
                        = (samples[k] - samples[k - n + 1]) * rate.den

C9_Witness ==
    /\ window = 2
    /\ interval = 1
    /\ samples = <<70, 10, 40, 20, 40>>
    /\ history = <<20, 40>>
    /\ rate = [num |-> 20, den |-> 1]

\* C10: when stdout is not a terminal, refreshing the terminal-size cache
\* completes without error and leaves the cached width at the default 80,
\* so that main goes on to run the command.
C10_Fallback ==
    ~tty =>
        /\ mpc # "crashed"
        /\ mpc \in {"dispatch", "watch"} => _TERM_WIDTH = <<DefaultWidth>>

\* The first byte of the dump (1-based) that the fault changes or removes.
FaultAt == IF fault.kind = "trunc" THEN fault.at + 1 ELSE fault.at

\* C15: when the header of record N reaches the reader as written and the
\* two bytes after the keylen key bytes are not '->' (another byte, or
\* fewer than two bytes left), the restore dies with the bad-separator
\* diagnostic for record N and makes no call of txn.put for it.
C15_Separator ==
    \A N \in 1..Len(cursor) :
        ( /\ Restoring
          /\ fault.kind # "none"
          /\ FaultFrame = N
          /\ FaultAt > KeyStart(N)
          /\ SubSeq(fp, KeyStart(N) + Len(cursor[N].key) + 1,
                    Min(KeyStart(N) + Len(cursor[N].key) + 2, Len(fp)))
                 # <<"-", ">">> )
        => /\ pc \in Terminal \/ ENABLED <<Next>>_vars
           /\ pc # "returned"
           /\ Len(puts) < N
           /\ pc = "died" =>
                 /\ err = [msg |-> BadSeparator, rec |-> N]
                 /\ puts = SubSeq(cursor, 1, N - 1)

C15_Witness ==
    /\ pc = "died"
    /\ Len(cursor) = 2
    /\ fault = [kind |-> "repl", at |-> KeyStart(2) + Len(cursor[2].key) + 2,
                byte |-> "-"]
    /\ cursor[2] = Rec(<<"a", "b">>, <<"-", ">", "\n">>)
    /\ err = [msg |-> BadSeparator, rec |-> 2]
    /\ puts = <<cursor[1]>>

\* The bytes of frame n as they lie in the sink, read off by position.
FrameShape(n) ==
    LET k  == cursor[n].key
        v  == cursor[n].value
        s  == FrameStart(n)
        kd == SubSeq(fp, s + 2, KeyStart(n) - Len(FormatD(Len(v))) - 2)
        vd == SubSeq(fp, KeyStart(n) - Len(FormatD(Len(v))), KeyStart(n) - 1)
    IN  /\ fp[s + 1] = "+"
        /\ IsDigitString(kd) /\ DigitsValue(kd, 0) = Len(k)
        /\ fp[s + 2 + Len(kd)] = ","
        /\ IsDigitString(vd) /\ DigitsValue(vd, 0) = Len(v)
        /\ fp[KeyStart(n)] = ":"
        /\ SubSeq(fp, KeyStart(n) + 1, KeyStart(n) + Len(k)) = k
        /\ SubSeq(fp, KeyStart(n) + Len(k) + 1, ValStart(n)) = <<"-", ">">>
        /\ SubSeq(fp, ValStart(n) + 1, ValStart(n) + Len(v)) = v
        /\ fp[ValStart(n) + Len(v) + 1] = "\n"
        /\ FrameStart(n + 1) = ValStart(n) + Len(v) + 1

\* C16: the sink holds exactly the frames '+<len(key)>,<len(value)>:' key
\* '->' value '\n' of the records consumed so far, in order, then (once the
\* cursor is exhausted) one newline and nothing else; every write appends,
\* and the declared lengths are the byte lengths of key and value.
C16_Shape ==
    /\ [](pc \in {"dump", "dumped"} =>
             /\ \A n \in 1..idx : FrameShape(n)
             /\ Len(fp) = FrameStart(idx + 1) + (IF pc = "dumped" THEN 1 ELSE 0)
             /\ pc = "dumped" => idx = Len(cursor) /\ fp[Len(fp)] = "\n")
    /\ [][pc = "dump" =>
             /\ Len(fp') > Len(fp)
             /\ SubSeq(fp', 1, Len(fp)) = fp]_vars

C16_Witness ==
    /\ pc = "dumped"
    /\ Len(cursor) = 2
    /\ Len(cursor[1].key) = 10
    /\ cursor[2] = Rec(<<"-", ">">>, <<",", ":">>)
    /\ Len(fp) = FrameStart(3) + 1

\* C17: a file of N >= 0 whole frames that ends without the end-marker
\* newline is not accepted: after the N records have been put the restore
\* dies with the missing-plus diagnostic for record N + 1 and returns no
\* count.
C17_NoEndMarker ==
    ( /\ Restoring
      /\ fault.kind = "trunc"
      /\ fault.at = FrameStart(Len(cursor) + 1) )
    => /\ pc \in Terminal \/ ENABLED <<Next>>_vars
       /\ pc # "returned"
       /\ pc = "died" =>
             /\ err = [msg |-> BadPlus, rec |-> Len(cursor) + 1]
             /\ puts = cursor

C17_Witness ==
    /\ pc = "died"
    /\ Len(cursor) = 2
    /\ fault.kind = "trunc"
    /\ fault.at = FrameStart(3)
    /\ err = [msg |-> BadPlus, rec |-> 3]
    /\ puts = cursor

\* C11: every header decision of the watch loop uses a (width, height) pair
\* that one single refresh wrote to the cache: the width it loaded and the
\* height it loaded are the pair the cache held at one of the two loads.
C11_NoTornRead ==
    Len(snap) = 2 =>
        <<snap[1][1], snap[2][2]>> \in {snap[1], snap[2]}

\* C12: when KeyboardInterrupt has ended the watch loop, stdout does not end
\* with a partial row: every row that was started has all its columns and
\* its newline.
C12_NoPartialRow ==
    wpc = "stopped" =>
        \A r \in 1..Len(out) : Len(out[r].cells) = NCols /\ out[r].nl

\* The last row of stdout is a complete header row written in this tick.
HeaderJustPrinted ==
    /\ out # <<>>
    /\ out[Len(out)] =
          [kind |-> "head", tick |-> cnt, nl |-> TRUE,
           cells |-> [i \in 1..NCols |-> rjust(cols[i].head, widths[i] + 1)]]

\* The loop is about to write the row of values of tick cnt.
DataRowDue == mpc = "watch" /\ ~csv /\ wpc = "data" /\ col = 1

\* A header row comes before the first row of values.
C13_First == (~csv /\ out # <<>>) => out[1].kind = "head"

\* A change of the cached width in an earlier tick has been answered by a
\* header before this tick's row of values.
C13_AfterResize == (DataRowDue /\ wchg # <<>>) => wchg[1] = cnt

\* A row of values whose count is a multiple of the height the test loaded,
\* less two, has a header in front of it; so has one for which the test did
\* not come to load the height.
C13_EveryPage ==
    (DataRowDue /\ (seen_h = <<>> \/ cnt % (seen_h[1] - 2) = 0))
        => HeaderJustPrinted

\* C13: in terminal mode a header row is printed before the first data row,
\* again no later than the next tick's data row after a resize notification
\* changed the cached width, and before every data row whose 0-based count
\* is a multiple of (terminal height - 2).
C13_HeaderReprint == C13_First /\ C13_AfterResize /\ C13_EveryPage

\* The deque of the windowfunc after the call of tick t (ticks from 1).
HistoryAt(t) == SubSeq(samples, Max(1, t - window + 1), t)

\* The formatted value of column i at tick t.
ValueAt(i, t) ==
    LET h == HistoryAt(t) IN
    Cell(cols[i], samples[t],
         IF Len(h) <= 1 THEN Zero
         ELSE [num |-> h[Len(h)] - h[1], den |-> (Len(h) - 1) * interval])

\* C14: in csv mode stdout is the row of column names once, first, and after
\* it one complete row per tick, in tick order, holding that tick's value of
\* every column in the order of the names; no second header, whatever the
\* terminal does.
C14_Csv ==
    (csv /\ wpc # "init") =>
        /\ out # <<>>
        /\ out[1] = [kind |-> "head", tick |-> 0, nl |-> TRUE,
                     cells |-> [i \in 1..NCols |-> Quote(cols[i].head)]]
        /\ \A r \in 2..Len(out) :
              out[r] = [kind |-> "data", tick |-> r - 2, nl |-> TRUE,
                        cells |-> [i \in 1..NCols |-> Quote(ValueAt(i, r - 1))]]
        /\ Len(out) - 1 \in {Len(samples) - 1, Len(samples)}
        /\ wpc \in {"sample", "sleep"} => Len(out) - 1 = Len(samples)
        /\ wpc = "csvrow" => Len(out) - 1 = Len(samples) - 1

C14_Witness ==
    /\ csv
    /\ wpc = "sleep"
    /\ samples = <<7, 1234567, 7>>
    /\ Len(out) = 4
    /\ window = 2
    /\ _TERM_WIDTH = <<120>>
    /\ winsz.width = 80
    /\ sigpending

\* The greatest element of a non-empty set of numbers.
Greatest(S) == CHOOSE m \in S : \A x \in S : x <= m

\* The formatted value of every column at every tick so far.
Values == [i \in 1..NCols, t \in 1..Len(samples) |-> ValueAt(i, t)]

\* For every column and every tick t so far, the maximum of the label's
\* length and the lengths of the column's values at the ticks 1..t.
WidthsAt(V) ==
    [i \in 1..NCols, t \in 0..Len(samples) |->
        Greatest({Len(cols[i].head)} \cup {Len(V[i, k]) : k \in 1..t})]

\* What cell i of a row of stdout holds before it is justified.
CellText(V, row, i) ==
    IF row.kind = "head" THEN cols[i].head ELSE V[i, row.tick + 1]

\* C18: a column's width is the maximum of its label's length and the lengths
\* of all its values so far, the current tick's included; it never
\* decreases; and every cell written in terminal mode is its text
\* right-justified to the column's width of that tick plus one.
C18_Widths ==
    /\ [](wpc # "init" =>
            LET V == Values
                W == WidthsAt(V) IN
            /\ widths = [i \in 1..NCols |-> W[i, Len(samples)]]
            /\ ~csv => \A r \in 1..Len(out) : \A i \in 1..Len(out[r].cells) :
                  out[r].cells[i] =
                      rjust(CellText(V, out[r], i), W[i, out[r].tick + 1] + 1))
    /\ [][\A i \in DOMAIN widths : widths'[i] >= widths[i]]_vars

C18_Witness ==
    /\ ~csv
    /\ wpc = "sleep"
    /\ samples = <<7, 1234567, 7>>
    /\ widths = <<7, 8>>
    /\ vals = <<<<"7">>, <<"-", "1", "2", "3", "4", "5", "6", "0">>>>
    /\ out[Len(out)].cells = <<rjust(<<"7">>, 8), rjust(vals[2], 9)>>

\* The header row in front of row r: the last one written before it.
HeaderOf(r) ==
    Greatest({h \in 1..(r - 1) : out[h].kind = "head"})

\* C19: in terminal mode every cell of a row of values is as wide as the
\* cell of its column in the most recently printed header row.
C19_Aligned ==
    ~csv =>
        \A r \in 1..Len(out) :
            out[r].kind = "data" =>
                /\ \E h \in 1..(r - 1) : out[h].kind = "head"
                /\ \A i \in 1..Len(out[r].cells) :
                      Len(out[r].cells[i]) = Len(out[HeaderOf(r)].cells[i])

=============================================================================
